---- MODULE Spec2Model ----
(***************************************************************************)
(* Model of get_lifelogs.py: the retrying page fetcher                     *)
(* (fetch_lifelogs_page) and the pagination loop of main.                  *)
(*                                                                         *)
(* One action per step of the code.  The HTTP server, the JSON decoder and *)
(* the file system are the environment: their answers are chosen with \E.  *)
(***************************************************************************)
EXTENDS Integers, Sequences, FiniteSets, TLC

(* ---------------- program constants (get_lifelogs.py:38-46) ------------ *)
REQUEST_LIMIT_PER_PAGE == 10
REQUEST_DELAY_SECONDS == 1
MAX_RETRIES == 3
RETRY_DELAY_SECONDS == 5

(* ---------------- bounds of the environment ---------------------------- *)
\* the server serves a full page with a cursor only for pages 1..MaxPages-1
MaxPages == 3
\* lines a previous run may have left in the output file
MaxOldLines == 1

(* ---------------- values ------------------------------------------------ *)
\* Python's None, for a cursor
NoneVal == "None"
\* the cursor strings the server can put in meta.lifelogs.nextCursor
CursorStrings == {"", "c1", "c2"}
\* HTTP status codes the server answers with
StatusCodes == {200, 401, 403, 404, 418, 429, 500}

\* json.dumps(log_entry) + '\n' : one complete line holding the record
Dumps(log_entry) == [json |-> log_entry, newline |-> TRUE]

\* the records the server puts on page p when it returns n of them
ServerRecords(p, n) == [i \in 1..n |-> <<p, i>>]

\* a decoded JSON object with the keys data{lifelogs} and meta{lifelogs{nextCursor}}
MkPayload(dt, lt, logs, mt, mlt, ct, cur) ==
    [top |-> "obj", dataTag |-> dt, logsTag |-> lt, logs |-> logs,
     metaTag |-> mt, mlTag |-> mlt, curTag |-> ct, cur |-> cur]

\* the value of data_payload when fetch_lifelogs_page returns None
NonePayload ==
    [top |-> "None", dataTag |-> "missing", logsTag |-> "missing", logs |-> <<>>,
     metaTag |-> "missing", mlTag |-> "missing", curTag |-> "missing", cur |-> NoneVal]

\* the numbers of records the server puts on a page: none, one, one fewer than
\* asked for, as many as asked for
PageSizes == {0, 1, REQUEST_LIMIT_PER_PAGE - 1, REQUEST_LIMIT_PER_PAGE}

\* the 'data' halves of a payload of page p
DataShapes(p) ==
    {<<"missing", "missing", <<>> >>, <<"null", "missing", <<>> >>,
     <<"ok", "missing", <<>> >>, <<"ok", "null", <<>> >>}
    \cup {<<"ok", "ok", ServerRecords(p, n)>> : n \in PageSizes}

\* the 'meta' halves of a payload
MetaShapes ==
    {<<"missing", "missing", "missing", NoneVal>>, <<"null", "missing", "missing", NoneVal>>,
     <<"ok", "missing", "missing", NoneVal>>, <<"ok", "null", "missing", NoneVal>>,
     <<"ok", "ok", "missing", NoneVal>>, <<"ok", "ok", "null", NoneVal>>}
    \cup {<<"ok", "ok", "ok", c>> : c \in CursorStrings}

\* every payload the server can answer page p with
Payloads(p) ==
    {MkPayload(d[1], d[2], d[3], m[1], m[2], m[3], m[4]) : d \in DataShapes(p), m \in MetaShapes}

\* the records a payload holds: data.lifelogs when it is there
Records(payload) ==
    IF payload.dataTag = "ok" /\ payload.logsTag = "ok" THEN payload.logs ELSE <<>>

\* the payload carries a nextCursor: meta.lifelogs.nextCursor is a non-empty string
HasCursor(payload) ==
    /\ payload.metaTag = "ok" /\ payload.mlTag = "ok" /\ payload.curTag = "ok"
    /\ payload.cur # ""

\* a full page that carries a cursor: the only page after which more follow
FullWithCursor(payload) ==
    Len(Records(payload)) >= REQUEST_LIMIT_PER_PAGE /\ HasCursor(payload)

(* ---------------- Python semantics used by main ------------------------- *)
\* truth value of a cursor: None and '' are false
Truthy(c) == c # NoneVal /\ c # ""

\* variant: the None returned by a failed fetch is not taken as a failure
NotPayload_IgnoresNone(payload) ==
    /\ payload.top = "obj"
    /\ payload.dataTag = "missing" /\ payload.metaTag = "missing"

\* `not data_payload`: None is false, and so is the empty dict {}
NotPayload(payload) ==
    \/ payload.top = "None"
    \/ payload.dataTag = "missing" /\ payload.metaTag = "missing"

\* data_payload.get('data', {}) is None: the chained .get raises AttributeError
DataGetRaises(payload) == payload.dataTag = "null"

\* data_payload.get('data', {}).get('lifelogs', []); None (falsy) is given as <<>>
Lifelogs(payload) ==
    IF payload.dataTag = "ok" /\ payload.logsTag = "ok" THEN payload.logs ELSE <<>>

\* meta_info or lifelogs_meta is None: the next .get raises AttributeError
MetaGetRaises(payload) ==
    \/ payload.metaTag = "null"
    \/ payload.metaTag = "ok" /\ payload.mlTag = "null"

\* lifelogs_meta.get("nextCursor")
NextCursor(payload) ==
    IF payload.metaTag = "ok" /\ payload.mlTag = "ok" /\ payload.curTag = "ok"
    THEN payload.cur ELSE NoneVal

(* ---------------- state ------------------------------------------------- *)
VARIABLES
    pc,                     \* position of main
    file,                   \* lines of OUTPUT_FILE
    page_count,
    current_cursor,
    pbar_n,                 \* pbar.n
    data_payload,
    lifelogs_on_page,
    attempt,                \* loop variable of fetch_lifelogs_page
    succeeded_after_retry,
    reason,                 \* why the loop stopped, "" while it runs
    reported,               \* final_fetched_count as printed, -1 before
    jsonErrorIsRequestException, \* the installed requests raises its own JSONDecodeError
    calls,                  \* history: the cursor argument of every call of fetch_lifelogs_page
    requests,               \* history: one entry per requests.get of the current call
    callLog,                \* history: outcomes of the attempts of the current call
    callSleeps,             \* history: time.sleep(RETRY_DELAY_SECONDS) in the current call
    callResult,             \* history: "" | "Success" | "None" for the current call
    recoveryEvents,         \* history: 'Success after retry!' lines of the current call
    interSleeps,            \* history: time.sleep(REQUEST_DELAY_SECONDS) calls
    fetched,                \* history: records of every successfully fetched page
    served,                 \* history: the nextCursor of every successfully fetched page
    truncations             \* history: times the file was opened with 'w'

vars == <<pc, file, page_count, current_cursor, pbar_n, data_payload, lifelogs_on_page,
          attempt, succeeded_after_retry, reason, reported, jsonErrorIsRequestException,
          calls, requests, callLog, callSleeps, callResult, recoveryEvents, interSleeps,
          fetched, served, truncations>>

mainVars == <<page_count, current_cursor, pbar_n, lifelogs_on_page, reason, reported,
              interSleeps, truncations>>

\* lines a previous run left behind
OldLine(i) == Dumps(<<0, i>>)
OldFiles == {[i \in 1..n |-> OldLine(i)] : n \in 0..MaxOldLines}

Init ==
    /\ pc = "start"
    /\ file \in OldFiles
    /\ page_count = 0
    /\ current_cursor = NoneVal
    /\ pbar_n = 0
    /\ data_payload = NonePayload
    /\ lifelogs_on_page = <<>>
    /\ attempt = 0
    /\ succeeded_after_retry = FALSE
    /\ reason = ""
    /\ reported = -1
    /\ jsonErrorIsRequestException \in BOOLEAN
    /\ calls = <<>>
    /\ requests = <<>>
    /\ callLog = <<>>
    /\ callSleeps = 0
    /\ callResult = ""
    /\ recoveryEvents = 0
    /\ interSleeps = 0
    /\ fetched = <<>>
    /\ served = <<>>
    /\ truncations = 0

(* ---------------- main: start of the run -------------------------------- *)
\* open(OUTPUT_FILE, 'w') succeeds: the file is cleared
InitFileOk ==
    /\ pc = "start"
    /\ file' = <<>>
    /\ truncations' = truncations + 1
    /\ pc' = "loop"
    /\ UNCHANGED <<page_count, current_cursor, pbar_n, data_payload, lifelogs_on_page,
                   attempt, succeeded_after_retry, reason, reported,
                   jsonErrorIsRequestException, calls, requests, callLog, callSleeps,
                   callResult,
                   recoveryEvents, interSleeps, fetched, served>>

\* open(OUTPUT_FILE, 'w') raises IOError: sys.exit(1)
InitFileFails ==
    /\ pc = "start"
    /\ pc' = "exit"
    /\ UNCHANGED <<file, page_count, current_cursor, pbar_n, data_payload, lifelogs_on_page,
                   attempt, succeeded_after_retry, reason, reported,
                   jsonErrorIsRequestException, calls, requests, callLog, callSleeps,
                   callResult,
                   recoveryEvents, interSleeps, fetched, served, truncations>>

\* while True: page_count += 1; call fetch_lifelogs_page(cursor=current_cursor)
LoopTop ==
    /\ pc = "loop"
    /\ page_count' = page_count + 1
    /\ attempt' = 0
    /\ succeeded_after_retry' = FALSE
    /\ calls' = Append(calls, current_cursor)
    /\ requests' = <<>>
    /\ callLog' = <<>>
    /\ callSleeps' = 0
    /\ callResult' = ""
    /\ recoveryEvents' = 0
    /\ pc' = "http"
    /\ UNCHANGED <<file, current_cursor, pbar_n, data_payload, lifelogs_on_page, reason,
                   reported, jsonErrorIsRequestException, interSleeps, fetched, served,
                   truncations>>

(* ---------------- fetch_lifelogs_page ----------------------------------- *)
\* variant: the cursor parameter is never sent
CursorParam_Omits(cursor) == NoneVal

\* if cursor: params['cursor'] = cursor   (NoneVal: the parameter is omitted)
CursorParam(cursor) == IF Truthy(cursor) THEN cursor ELSE NoneVal

\* response.ok / raise_for_status(): 400..599 raise HTTPError
IsErrorStatus(status) == 400 <= status /\ status < 600

\* variant: the retry is not bounded by the attempts that remain
ShouldRetryHTTP_NoBound(status, att) ==
    ((500 <= status /\ status < 600) \/ status = 429) /\ att < MAX_RETRIES

\* variant: every error status is retried, a 4xx too
ShouldRetryHTTP_AnyError(status, att) ==
    (400 <= status /\ status < 600) /\ att < MAX_RETRIES - 1

\* line 99: a 5xx or 429 is retried while attempts remain
ShouldRetryHTTP(status, att) ==
    ((500 <= status /\ status < 600) \/ status = 429) /\ att < MAX_RETRIES - 1

\* variant: gives up one attempt early
ShouldRetryRequest_OffByOne(att) == att < MAX_RETRIES - 2

\* line 112: a RequestException is retried while attempts remain
ShouldRetryRequest(att) == att < MAX_RETRIES - 1

\* requests.get(BASE_URL, headers=headers, params=params, ...)
SendRequest(entry) ==
    /\ requests' = Append(requests, [call |-> page_count,
                                     cursor |-> CursorParam(current_cursor)])
    /\ callLog' = Append(callLog, entry)

\* line 78-79: the recovery line is printed when the response is ok after a retry
LogRecovery(ok) ==
    recoveryEvents' = IF succeeded_after_retry /\ ok THEN recoveryEvents + 1
                      ELSE recoveryEvents

\* return None
ReturnNone ==
    /\ data_payload' = NonePayload
    /\ callResult' = "None"
    /\ pc' = "returned"
    /\ UNCHANGED <<attempt, succeeded_after_retry, callSleeps>>

\* succeeded_after_retry = True; time.sleep(RETRY_DELAY_SECONDS); continue
\* (when the for loop is exhausted the function falls to `return None`, line 125)
SleepAndContinue ==
    /\ succeeded_after_retry' = TRUE
    /\ callSleeps' = callSleeps + 1
    /\ attempt' = attempt + 1
    /\ IF attempt + 1 < MAX_RETRIES
       THEN pc' = "http" /\ UNCHANGED <<data_payload, callResult>>
       ELSE data_payload' = NonePayload /\ callResult' = "None" /\ pc' = "returned"

\* except requests.exceptions.RequestException (lines 110-119)
HandleRequestException ==
    IF ShouldRetryRequest(attempt) THEN SleepAndContinue ELSE ReturnNone

\* except json.JSONDecodeError (lines 120-124)
HandleJSONDecodeError == ReturnNone

\* lines 77-81: a non-error status whose body decodes; return response.json()
AttemptSuccess ==
    /\ pc = "http" /\ attempt < MAX_RETRIES
    /\ \E status \in StatusCodes, payload \in Payloads(page_count) :
        /\ ~IsErrorStatus(status)
        /\ FullWithCursor(payload) => page_count < MaxPages
        /\ SendRequest([kind |-> "ok", status |-> status])
        /\ LogRecovery(TRUE)
        /\ data_payload' = payload
        /\ fetched' = fetched \o Records(payload)
        /\ served' = Append(served, NextCursor(payload))
    /\ callResult' = "Success"
    /\ pc' = "returned"
    /\ UNCHANGED <<attempt, succeeded_after_retry, callSleeps>>
    /\ UNCHANGED <<file, jsonErrorIsRequestException, calls>>
    /\ UNCHANGED mainVars

\* lines 82-109: raise_for_status() raised HTTPError
AttemptHTTPError ==
    /\ pc = "http" /\ attempt < MAX_RETRIES
    /\ \E status \in StatusCodes :
        /\ IsErrorStatus(status)
        /\ SendRequest([kind |-> "http_error", status |-> status])
        /\ IF ShouldRetryHTTP(status, attempt) THEN SleepAndContinue ELSE ReturnNone
    /\ LogRecovery(FALSE)
    /\ UNCHANGED <<file, jsonErrorIsRequestException, calls, fetched, served>>
    /\ UNCHANGED mainVars

\* lines 110-119: requests.get raised a network or timeout error
AttemptNetworkError ==
    /\ pc = "http" /\ attempt < MAX_RETRIES
    /\ SendRequest([kind |-> "network", status |-> 0])
    /\ HandleRequestException
    /\ LogRecovery(FALSE)
    /\ UNCHANGED <<file, jsonErrorIsRequestException, calls, fetched, served>>
    /\ UNCHANGED mainVars

\* a non-error status whose body does not decode: response.json() raises.
\* requests >= 2.27 raises requests.exceptions.JSONDecodeError, a subclass of both
\* RequestException and json.JSONDecodeError, so the first matching clause
\* (line 110) handles it; older releases raise json.JSONDecodeError (line 120).
AttemptBadJSON ==
    /\ pc = "http" /\ attempt < MAX_RETRIES
    /\ \E status \in StatusCodes :
        /\ ~IsErrorStatus(status)
        /\ SendRequest([kind |-> "bad_json", status |-> status])
    /\ LogRecovery(TRUE)
    /\ IF jsonErrorIsRequestException THEN HandleRequestException
       ELSE HandleJSONDecodeError
    /\ UNCHANGED <<file, jsonErrorIsRequestException, calls, fetched, served>>
    /\ UNCHANGED mainVars

(* ---------------- main: the pagination loop ------------------------------ *)
fetchVars == <<data_payload, attempt, succeeded_after_retry, jsonErrorIsRequestException,
               calls, requests, callLog, callSleeps, callResult, recoveryEvents,
               fetched, served>>

\* lines 176-180: `if not data_payload: break`, then read data.lifelogs
CheckPayload ==
    /\ pc = "returned"
    /\ IF NotPayload(data_payload)
       THEN /\ reason' = "fetch-failed"
            /\ pc' = "done"
            /\ UNCHANGED lifelogs_on_page
       ELSE IF DataGetRaises(data_payload)
       THEN /\ pc' = "crashed"
            /\ UNCHANGED <<reason, lifelogs_on_page>>
       ELSE /\ lifelogs_on_page' = Lifelogs(data_payload)
            /\ pc' = IF Lifelogs(data_payload) # <<>> THEN "write" ELSE "decide"
            /\ UNCHANGED reason
    /\ UNCHANGED <<file, page_count, current_cursor, pbar_n, reported, interSleeps,
                   truncations>>
    /\ UNCHANGED fetchVars

\* variant: the records of the page are written last first
PageLines_Reversed(logs) == [i \in 1..Len(logs) |-> Dumps(logs[Len(logs) + 1 - i])]

\* the lines `for log_entry in lifelogs_on_page: f.write(json.dumps(log_entry) + '\n')` adds
PageLines(logs) == [i \in 1..Len(logs) |-> Dumps(logs[i])]

\* variant: the file is opened with 'w', the earlier lines are lost
AppendLines_Truncates(old, lines) == lines

\* variant: the lines never reach the file
AppendLines_Skips(old, lines) == old

\* line 184: open(OUTPUT_FILE, 'a'): what is written goes after what is there
AppendLines(old, lines) == old \o lines

\* the numbers of lines of a page of n that reach the file before a write fails:
\* none, one, all but the last
FailPoints(n) == {j \in 0..(n - 1) : j \in {0, 1, n - 1}}

\* variant: the IOError is logged and the loop goes on
AfterWriteError_GoesOn == "decide"

\* line 191: break
AfterWriteError == "done"

\* lines 182-193: append the page, then pbar.update(len(lifelogs_on_page))
WritePageOk ==
    /\ pc = "write"
    /\ file' = AppendLines(file, PageLines(lifelogs_on_page))
    /\ pbar_n' = pbar_n + Len(lifelogs_on_page)
    /\ pc' = "decide"
    /\ UNCHANGED <<page_count, current_cursor, lifelogs_on_page, reason, reported,
                   interSleeps, truncations>>
    /\ UNCHANGED fetchVars

\* the beginning of a line: the text of the record without its end and its newline
TornLine(line) == [json |-> line.json, newline |-> FALSE]

\* what a flush of the file buffer during the for loop leaves in the file: the
\* first j lines of the page and the beginning of line j+1 (the buffer is cut at a
\* byte count, not at a newline)
FlushedPart(lines, j) == SubSeq(lines, 1, j) \o <<TornLine(lines[j + 1])>>

\* lines 184-186, first part: f.write fills the buffer and the buffer is flushed
\* before the page is complete
WriteFlush ==
    /\ pc = "write"
    /\ \E j \in FailPoints(Len(lifelogs_on_page)) :
        file' = AppendLines(file, FlushedPart(PageLines(lifelogs_on_page), j))
    /\ pc' = "writing"
    /\ UNCHANGED <<page_count, current_cursor, pbar_n, lifelogs_on_page, reason, reported,
                   interSleeps, truncations>>
    /\ UNCHANGED fetchVars

\* the lines of the page that are still to reach the file after a flush that
\* stopped inside line k: the rest of line k and the lines after it
RestOfPage(lines, k) == SubSeq(lines, k, Len(lines))

\* lines 184-193, second part: the rest of the page reaches the file when the
\* with block closes it; then pbar.update(len(lifelogs_on_page))
WriteRest ==
    /\ pc = "writing"
    /\ LET lines == PageLines(lifelogs_on_page)
           k == CHOOSE i \in 1..Len(lines) : lines[i].json = file[Len(file)].json
       IN file' = AppendLines(SubSeq(file, 1, Len(file) - 1), RestOfPage(lines, k))
    /\ pbar_n' = pbar_n + Len(lifelogs_on_page)
    /\ pc' = "decide"
    /\ UNCHANGED <<page_count, current_cursor, lifelogs_on_page, reason, reported,
                   interSleeps, truncations>>
    /\ UNCHANGED fetchVars

\* lines 189-191: open or write raised IOError after j lines reached the file
WritePageFails ==
    /\ pc = "write"
    /\ \E j \in FailPoints(Len(lifelogs_on_page)) :
        file' = AppendLines(file, SubSeq(PageLines(lifelogs_on_page), 1, j))
    /\ reason' = "write-failed"
    /\ pc' = AfterWriteError
    /\ UNCHANGED <<page_count, current_cursor, pbar_n, lifelogs_on_page, reported,
                   interSleeps, truncations>>
    /\ UNCHANGED fetchVars

\* variant: no sleep after the first page either
SleepsBetweenPages_SkipsFirst(n) == IF n > 1 /\ REQUEST_DELAY_SECONDS > 0 THEN 1 ELSE 0

\* line 233-234: if page_count > 0 and REQUEST_DELAY_SECONDS > 0: time.sleep(...)
SleepsBetweenPages(n) == IF n > 0 /\ REQUEST_DELAY_SECONDS > 0 THEN 1 ELSE 0

\* variant: a full page counts as short
IsShortPage_OffByOne(logs) == Len(logs) <= REQUEST_LIMIT_PER_PAGE

\* variant: the comparison is the wrong way round
IsShortPage_Flipped(logs) == Len(logs) > REQUEST_LIMIT_PER_PAGE

\* line 228: fewer records than asked for
IsShortPage(logs) == Len(logs) < REQUEST_LIMIT_PER_PAGE

\* variant: the cursor of the page is not taken over
AdoptCursor_Keeps(old, next) == old

\* line 226: current_cursor = next_cursor
AdoptCursor(old, next) == next

\* lines 195-234: stop or go on to the next page
DecideContinuation ==
    /\ pc = "decide"
    /\ IF lifelogs_on_page = <<>> /\ page_count > 1
       THEN /\ reason' = "empty-page" /\ pc' = "done"
            /\ UNCHANGED <<current_cursor, interSleeps>>
       ELSE IF lifelogs_on_page = <<>> /\ page_count = 1
       THEN /\ reason' = "no-data" /\ pc' = "done"
            /\ UNCHANGED <<current_cursor, interSleeps>>
       ELSE IF MetaGetRaises(data_payload)
       THEN /\ pc' = "crashed"
            /\ UNCHANGED <<reason, current_cursor, interSleeps>>
       ELSE IF ~Truthy(NextCursor(data_payload))
       THEN /\ reason' = "no-next-cursor" /\ pc' = "done"
            /\ UNCHANGED <<current_cursor, interSleeps>>
       ELSE /\ current_cursor' = AdoptCursor(current_cursor, NextCursor(data_payload))
            /\ IF IsShortPage(lifelogs_on_page)
               THEN /\ reason' = "short-page" /\ pc' = "done"
                    /\ UNCHANGED interSleeps
               ELSE /\ interSleeps' = interSleeps + SleepsBetweenPages(page_count)
                    /\ pc' = "loop"
                    /\ UNCHANGED reason
    /\ UNCHANGED <<file, page_count, pbar_n, lifelogs_on_page, reported, truncations>>
    /\ UNCHANGED fetchVars

\* lines 236-243: final_fetched_count = pbar.n; print the summary
Summary ==
    /\ pc = "done"
    /\ reported' = pbar_n
    /\ pc' = "complete"
    /\ UNCHANGED <<file, page_count, current_cursor, pbar_n, lifelogs_on_page, reason,
                   interSleeps, truncations>>
    /\ UNCHANGED fetchVars

Next ==
    \/ InitFileOk
    \/ InitFileFails
    \/ LoopTop
    \/ AttemptSuccess
    \/ AttemptHTTPError
    \/ AttemptNetworkError
    \/ AttemptBadJSON
    \/ CheckPayload
    \/ WritePageOk
    \/ WritePageFails
    \/ WriteFlush
    \/ WriteRest
    \/ DecideContinuation
    \/ Summary

Spec == Init /\ [][Next]_vars

\* the program is one sequential thread: it takes its next step as long as there is
\* one (every sleep ends, every request returns or times out after
\* CLIENT_REQUEST_TIMEOUT)
FairSpec == Spec /\ WF_vars(Next)

TypeOK ==
    /\ pc \in {"start", "exit", "loop", "http", "returned", "write", "writing", "decide",
               "done",
               "complete", "crashed"}
    /\ page_count \in 0..MaxPages
    /\ attempt \in 0..MAX_RETRIES
    /\ callSleeps \in 0..MAX_RETRIES
    /\ current_cursor \in CursorStrings \cup {NoneVal}
    /\ reason \in {"", "fetch-failed", "write-failed", "empty-page", "no-data",
                   "no-next-cursor", "short-page"}

(* ======================= claims ========================================= *)
\* the lines the records recs make, one line per record, in order
ExpectedLines(recs) == [i \in 1..Len(recs) |-> [json |-> recs[i], newline |-> TRUE]]

\* an attempt that ended in a transient failure: 429, 5xx or a network error
Transient(entry) ==
    \/ entry.kind = "network"
    \/ /\ entry.kind = "http_error"
       /\ (entry.status = 429 \/ (500 <= entry.status /\ entry.status <= 599))

\* the first n attempts of the current call were all transient failures
FirstTransient(n) == \A i \in 1..n : Transient(callLog[i])

\* the current call of fetch_lifelogs_page has returned
CallReturned == callResult # ""

\* the precedence of the stop reasons, first match wins
RefDecision(first, n, hasCursor) ==
    IF n = 0 /\ ~first THEN "empty-page"
    ELSE IF n = 0 /\ first THEN "no-data"
    ELSE IF ~hasCursor THEN "no-next-cursor"
    ELSE IF n < REQUEST_LIMIT_PER_PAGE THEN "short-page"
    ELSE "continue"

\* what the driver did with the page it fetched last
DriverDecision ==
    IF pc = "loop" THEN "continue" ELSE IF pc = "crashed" THEN "crash" ELSE reason

\* the driver has dealt with a successfully fetched page, and no write failed
Decided ==
    /\ callResult = "Success"
    /\ pc \in {"loop", "done", "complete", "crashed"}
    /\ reason # "write-failed"

\* C1: for every successfully fetched page (first page or not, 0..limit records,
\* cursor present or absent) the driver's decision is the one of the precedence
\* empty-page, no-data, no-next-cursor, short-page, continue.
C1_DecisionFollowsPrecedence ==
    Decided => DriverDecision = RefDecision(page_count = 1,
                                            Len(Records(data_payload)),
                                            HasCursor(data_payload))

\* the page fetched last holds 1..limit-1 records and carries a nextCursor
ShortWithCursor ==
    /\ callResult = "Success"
    /\ Len(Records(data_payload)) >= 1
    /\ Len(Records(data_payload)) < REQUEST_LIMIT_PER_PAGE
    /\ HasCursor(data_payload)

\* C2: after a successfully fetched short page (at least one record, fewer than the
\* limit) that carries a nextCursor, the driver writes the page and stops with
\* short-page; no further call of fetch_lifelogs_page and no HTTP request follows.
C2_ShortPageStops ==
    [][ShortWithCursor =>
        /\ requests' = requests
        /\ calls' = calls
        /\ page_count' = page_count
        /\ pc' \notin {"loop", "http", "crashed"}
        /\ pc' = "done" =>
              \/ reason' = "write-failed"
              \/ reason' = "short-page" /\ file' = ExpectedLines(fetched)]_vars

C2_Witness ==
    /\ ShortWithCursor
    /\ page_count = 2
    /\ pc = "complete"
    /\ reason = "short-page"
    /\ Len(file) = REQUEST_LIMIT_PER_PAGE + Len(Records(data_payload))

\* C3: for every k < MAX_RETRIES, after k transient failures the call makes attempt
\* k+1 having slept k times, and when that attempt returns a non-error status with
\* a decodable body the call returns the payload after k+1 attempts and k sleeps.
C3_SuccessAfterTransients ==
    LET n == Len(callLog) IN
    /\ (page_count >= 1 /\ n < MAX_RETRIES /\ FirstTransient(n)) =>
          /\ pc = "http"
          /\ attempt = n
          /\ callSleeps = n
          /\ ~CallReturned
    /\ (n >= 1 /\ callLog[n].kind = "ok" /\ FirstTransient(n - 1)) =>
          /\ n <= MAX_RETRIES
          /\ callResult = "Success"
          /\ data_payload.top = "obj"
          /\ callSleeps = n - 1
          /\ pc # "http"

C3_Witness ==
    /\ Len(callLog) = MAX_RETRIES
    /\ callLog[1].kind = "http_error" /\ callLog[1].status = 429
    /\ callLog[2].kind = "network"
    /\ callLog[3].kind = "ok"
    /\ callResult = "Success"
    /\ callSleeps = MAX_RETRIES - 1

\* C4: one call makes at most MAX_RETRIES HTTP attempts and has returned after the
\* last; when every attempt was a transient failure it returns None after exactly
\* MAX_RETRIES attempts and MAX_RETRIES-1 sleeps (none after the final attempt).
C4_BoundedRetries ==
    LET n == Len(callLog) IN
    /\ n <= MAX_RETRIES
    /\ callSleeps <= MAX_RETRIES - 1
    /\ n = MAX_RETRIES => pc # "http" /\ CallReturned
    /\ (CallReturned /\ FirstTransient(n)) =>
          /\ callResult = "None"
          /\ n = MAX_RETRIES
          /\ callSleeps = MAX_RETRIES - 1

C4_Witness ==
    /\ callResult = "None"
    /\ Len(callLog) = MAX_RETRIES
    /\ callLog[1].kind = "network"
    /\ callLog[2].kind = "http_error" /\ callLog[2].status = 500
    /\ callLog[3].kind = "http_error" /\ callLog[3].status = 429
    /\ callSleeps = MAX_RETRIES - 1
    /\ reason = "fetch-failed"

\* the last attempt of the current call got a 4xx status other than 429
LastIsClientError ==
    /\ Len(callLog) >= 1
    /\ callLog[Len(callLog)].kind = "http_error"
    /\ 400 <= callLog[Len(callLog)].status
    /\ callLog[Len(callLog)].status < 500
    /\ callLog[Len(callLog)].status # 429

\* C5: a 4xx status other than 429, on the first or on a later attempt, makes the
\* call return None at once: no sleep follows it and no further attempt is made.
C5_ClientErrorIsFatal ==
    LastIsClientError =>
        /\ callResult = "None"
        /\ pc # "http"
        /\ callSleeps = Len(callLog) - 1

C5_Witness ==
    /\ LastIsClientError
    /\ Len(callLog) = 2
    /\ callLog[1].kind = "http_error" /\ callLog[1].status = 500
    /\ callLog[2].status = 404
    /\ reason = "fetch-failed"

\* C6: a non-error status whose body does not decode as JSON makes the call return
\* None without retrying: no sleep and no further attempt follows.
C6_BadJSONIsFatal ==
    (Len(callLog) >= 1 /\ callLog[Len(callLog)].kind = "bad_json") =>
        /\ callResult = "None"
        /\ pc # "http"
        /\ callSleeps = Len(callLog) - 1

\* C7: when the run has ended without a write failure, the lines of the output file
\* are the records of all successfully fetched pages, in fetch order and in page
\* order, each exactly once.
C7_FileHoldsFetchedRecords ==
    (pc \in {"done", "complete"} /\ reason # "write-failed") =>
        /\ file = ExpectedLines(fetched)
        /\ Len(file) = Len(fetched)

C7_Witness ==
    /\ pc = "complete"
    /\ page_count = 3
    /\ reason = "no-next-cursor"
    /\ Len(file) = 2 * REQUEST_LIMIT_PER_PAGE + 1

\* the decoded payload has no list of records: 'data' or 'data.lifelogs' is missing
LacksRecords(payload) ==
    /\ payload.top = "obj"
    /\ \/ payload.dataTag = "missing"
       \/ payload.dataTag = "ok" /\ payload.logsTag = "missing"

\* C8: a successfully decoded payload that lacks the nested fields (the empty object
\* {} included) is an empty page: the run stops with no-data on the first page and
\* with empty-page on a later one, never as a failed fetch.
C8_MissingFieldsAreEmptyPage ==
    (callResult = "Success" /\ LacksRecords(data_payload) /\ pc \in {"done", "complete"}) =>
        reason = IF page_count = 1 THEN "no-data" ELSE "empty-page"

\* C9: whatever the fetch outcome and the shape of the payload, the loop ends in a
\* stop with a reason and the summary is reported; no unhandled error escapes.
C9_NoUnhandledError ==
    /\ pc # "crashed"
    /\ pc = "complete" => (reason # "" /\ reported = pbar_n)

\* C10: once fetch_lifelogs_page has returned None for page n the run stops with
\* fetch-failed: no further HTTP request, no further call, no write; the file keeps
\* the lines of pages 1..n-1.
C10_FetchFailureStopsRun ==
    [][callResult = "None" =>
        /\ file = ExpectedLines(fetched)
        /\ file' = file
        /\ requests' = requests
        /\ calls' = calls
        /\ page_count' = page_count
        /\ pc' \in {"done", "complete"}
        /\ reason' = "fetch-failed"]_vars

C10_Witness ==
    /\ callResult = "None"
    /\ page_count = 3
    /\ pc = "complete"
    /\ reason = "fetch-failed"
    /\ Len(file) = 2 * REQUEST_LIMIT_PER_PAGE

\* a is an initial part of b
IsPrefix(a, b) == Len(a) <= Len(b) /\ SubSeq(b, 1, Len(a)) = a

\* the records of the pages fetched before the page fetched last
EarlierRecords == SubSeq(fetched, 1, Len(fetched) - Len(Records(data_payload)))

\* C11: when appending page n fails the run stops at once: the lines of pages
\* 1..n-1 are still in the file, in order, the file is not touched again and no
\* HTTP request and no call of fetch_lifelogs_page follows.
C11_WriteFailureStopsRun ==
    [][/\ reason' = "write-failed" =>
             /\ IsPrefix(ExpectedLines(EarlierRecords'), file')
             /\ pc' \in {"done", "complete"}
       /\ reason = "write-failed" =>
             /\ file' = file
             /\ requests' = requests
             /\ calls' = calls
             /\ page_count' = page_count]_vars

C11_Witness ==
    /\ reason = "write-failed"
    /\ page_count = 3
    /\ pc = "complete"
    /\ Len(file) = 2 * REQUEST_LIMIT_PER_PAGE + 1
    /\ Len(calls) = 3

\* the complete lines of a file
WholeLines(f) == SelectSeq(f, LAMBDA line : line.newline)

\* file b is file a with text added at its end
Extends(a, b) ==
    /\ Len(a) <= Len(b)
    /\ \A i \in 1..Len(a) : b[i].json = a[i].json /\ (a[i].newline => b[i].newline)

\* C12: every fetched page is appended at most once and before the next page is
\* asked for: the file never holds more than the fetched records, each once and in
\* order, and at every HTTP request it holds all of them.
C12_WrittenOnceBeforeNextFetch ==
    [][/\ truncations' = 1 => IsPrefix(WholeLines(file'), ExpectedLines(fetched'))
       /\ Len(requests') > Len(requests) => file = ExpectedLines(fetched)]_vars

C12_Witness ==
    /\ Len(requests) = 2
    /\ requests[2].call = 3
    /\ pc = "http"
    /\ Len(file) = 2 * REQUEST_LIMIT_PER_PAGE
    /\ file = ExpectedLines(fetched)

\* C13 as stated: no two calls of fetch_lifelogs_page of one run carry the same
\* cursor value, whatever the server answers.
C13_NoCursorSentTwice ==
    \A i, j \in DOMAIN calls : i # j => calls[i] # calls[j]

\* C13 as amended: two calls of one run carry the same cursor value only when the
\* server returned that value as nextCursor on the pages right before both of
\* them; the driver itself never sends the cursor of an earlier call again.
C13_CursorRepeatedOnlyByServer ==
    \A i, j \in DOMAIN calls :
        (i < j /\ calls[i] = calls[j]) =>
            /\ i >= 2
            /\ served[i - 1] = calls[i]
            /\ served[j - 1] = calls[j]

C13_Witness ==
    /\ Len(calls) = 3
    /\ calls[2] = "c1" /\ calls[3] = "c1"
    /\ Len(requests) = 1 /\ requests[1].cursor = "c1"
    /\ served[1] = "c1" /\ served[2] = "c1"

\* C14: the output file is truncated once per run, before the first HTTP request;
\* when the truncation fails the run ends with no HTTP request; after the
\* truncation the file only grows at its end.
C14_TruncatedOnceThenAppendOnly ==
    [][/\ truncations' <= 1
       /\ truncations' # truncations => (file' = <<>> /\ calls = <<>> /\ requests = <<>>)
       /\ (calls' # <<>> \/ requests' # <<>>) => truncations' = 1
       /\ pc' = "exit" => (truncations' = 0 /\ calls' = <<>> /\ requests' = <<>>)
       /\ pc = "exit" => (calls' = calls /\ requests' = requests)
       /\ truncations = 1 => Extends(file, file')]_vars

C14_Witness ==
    /\ truncations = 1
    /\ pc = "complete"
    /\ page_count = 2
    /\ Len(calls) = 2
    /\ Len(requests) >= 2
    /\ Len(file) > REQUEST_LIMIT_PER_PAGE

\* C15: the total the final summary reports is the number of lines in the output
\* file when the run stops, also after a fetch failure and after a write failure
\* that left some records of the current page in the file.
C15_ReportedTotalIsFileLength ==
    pc = "complete" => reported = Len(file)

\* C16: the requests of the first call send no cursor; the requests of every later
\* call send the nextCursor the page just before returned; all attempts of one
\* call send the same cursor.
C16_CursorChain ==
    /\ \A k \in DOMAIN calls :
          calls[k] = IF k = 1 THEN NoneVal ELSE served[k - 1]
    /\ \A i \in DOMAIN requests :
          /\ requests[i].call = Len(calls)
          /\ requests[i].cursor = IF requests[i].call = 1 THEN NoneVal
                                  ELSE served[requests[i].call - 1]
          /\ requests[i].cursor = requests[1].cursor

C16_Witness ==
    /\ calls = <<NoneVal, "c1", "c2">>
    /\ Len(requests) = 3
    /\ requests[1].call = 3 /\ requests[1].cursor = "c2"
    /\ requests[3].call = 3 /\ requests[3].cursor = "c2"
    /\ served = <<"c1", "c2">>

\* C17: the driver sleeps REQUEST_DELAY_SECONDS once between two page fetches: none
\* before the first fetch, none after the page the run stops on; with n page
\* fetches made there were n-1 sleeps, and n once the next fetch is due.
C17_OneSleepBetweenPages ==
    interSleeps = IF pc = "loop" THEN page_count
                  ELSE IF page_count = 0 THEN 0
                  ELSE page_count - 1

C17_Witness ==
    /\ pc = "complete"
    /\ page_count = 3
    /\ interSleeps = 2
    /\ reason = "short-page"

\* C18: a call prints the recovery line ('Success after retry!') when it returns
\* the payload after at least one retry, and in no other case: not when the first
\* attempt succeeds and not when the call returns None.
C18_RecoveryOnlyOnSuccessAfterRetry ==
    CallReturned =>
        (recoveryEvents >= 1 <=> (callResult = "Success" /\ Len(callLog) >= 2))

\* C19: at whatever point the process is interrupted, the output file holds only
\* complete lines, each one whole record, making a prefix of the records fetched so
\* far; never a partly written record.  (An interrupt leaves the file as it is in
\* the state it hits, so this is asked of every reachable state after truncation.)
C19_OnlyCompleteLines ==
    truncations = 1 =>
        /\ \A i \in DOMAIN file : file[i].newline
        /\ IsPrefix(file, ExpectedLines(fetched))

\* the pagination loop is over: left by break or by an error, or never entered
LoopOver == pc \in {"exit", "done", "complete", "crashed"}

\* the page fetched last gives a reason to stop: the fetch failed, the write failed,
\* the page is empty, has no cursor, or is short
StopCondition ==
    \/ callResult = "None"
    \/ reason = "write-failed"
    \/ Records(data_payload) = <<>>
    \/ ~HasCursor(data_payload)
    \/ Len(Records(data_payload)) < REQUEST_LIMIT_PER_PAGE

\* C20: when the server, after finitely many full pages with a cursor, returns a
\* page that is empty, short, without cursor or failed, the loop eventually stops;
\* and it stops only on a stop condition, never after a page that was full,
\* carried a cursor and was written.
C20_LoopStopsOnlyOnStopCondition ==
    /\ <>LoopOver
    /\ [](pc \in {"done", "complete", "crashed"} => StopCondition)

C20_Witness ==
    /\ pc = "complete"
    /\ page_count = 3
    /\ reason = "empty-page"
    /\ Len(file) = 2 * REQUEST_LIMIT_PER_PAGE
    /\ interSleeps = 2

====
